---- MODULE Spec2Model ----
(***************************************************************************)
(* MyDrive backend: the file/folder tree, the per-file version chain and   *)
(* the share grants, as implemented by the request handlers of             *)
(* app/main.py and the helpers of app/utils/versioning.py.                 *)
(*                                                                         *)
(* Each handler runs to completion against the relational store (one       *)
(* action per handler).  Three stores are modelled: the relational rows    *)
(* (files, versions, shares), the S3 bucket (s3) written by upload_file    *)
(* and the local filesystem (disk) that create_file_version,               *)
(* restore_file_version and versioning.py read and write through           *)
(* os.path / open / shutil.                                                *)
(***************************************************************************)
EXTENDS Integers, FiniteSets, Sequences, Bags, TLC

VARIABLES files, next_id, versions, shares, s3, disk, resp, calls

vars == <<files, next_id, versions, shares, s3, disk, resp, calls>>

---------------------------------------------------------------------------
(* Bounds of the model *)

MaxFiles == 3
MaxVersions == 3
MaxShares == 3

(* Values drawn by the requests *)

Users == {1, 2}
NoUser == 0
NULL == 0
Names == {"a.txt", "b.txt"}
FileTypes == {"text/plain", "application/x-msdownload"}
ALLOWED_TYPES == {"text/plain"}
Permissions == {"read", "edit"}

HTTP_200 == 200
HTTP_201 == 201
HTTP_400 == 400
HTTP_403 == 403
HTTP_404 == 404
HTTP_500 == 500

ContentSize(c) == IF c = "hello" THEN 5 ELSE 11

is_valid_file_type(file_type) == file_type \in ALLOWED_TYPES

---------------------------------------------------------------------------
(* Storage keys and paths.  A path is uploads/<user>/<name> (v = 0) or     *)
(* uploads/<user>/versions/v<n>_<name> (v = n).                            *)

NoPath == [user |-> 0, name |-> "", v |-> 0]

S3Key(user_id, file_name) == [user |-> user_id, name |-> file_name, v |-> 0]

VersionPath(file_path, new_version_number) ==
    [file_path EXCEPT !.v = new_version_number]

BlobPut(store, key, content) ==
    [k \in DOMAIN store \cup {key} |-> IF k = key THEN content ELSE store[k]]

BlobDelete(store, keys) ==
    [k \in DOMAIN store \ keys |-> store[k]]

---------------------------------------------------------------------------
(* Rows *)

FileIds == DOMAIN files

FileRow(filename, file_path, file_size, owner_id, type, parent_id) ==
    [filename |-> filename, file_path |-> file_path, file_size |-> file_size,
     owner_id |-> owner_id, is_shared |-> FALSE, type |-> type,
     parent_id |-> parent_id]

FileVersionRow(file_id, version_number, file_path, file_size, is_current) ==
    [file_id |-> file_id, version_number |-> version_number,
     file_path |-> file_path, file_size |-> file_size,
     is_current |-> is_current]

FileShareRow(file_id, shared_with_id, permission) ==
    [file_id |-> file_id, shared_with_id |-> shared_with_id,
     permission |-> permission]

Response(op, id, arg, status) ==
    [op |-> op, id |-> id, arg |-> arg, status |-> status]

InsertFile(rows, id, row) ==
    [i \in DOMAIN rows \cup {id} |-> IF i = id THEN row ELSE rows[i]]

ParentFolderAnyOwner(parent_id, user_id) ==
    /\ parent_id \in FileIds
    /\ files[parent_id].type = "folder"

(* The parent lookup shared by upload_file, create_folder and move_item:   *)
(* a row with that id, owned by the caller, of type folder.                *)
ParentFolderFound(parent_id, user_id) ==
    /\ parent_id \in FileIds
    /\ files[parent_id].owner_id = user_id
    /\ files[parent_id].type = "folder"

VersionsOf(file_id) == {v \in versions : v.file_id = file_id}

Max(S) == CHOOSE m \in S : \A x \in S : x <= m

---------------------------------------------------------------------------
(* Requests in flight.  A handler declared with def runs in a worker       *)
(* thread with its own session; a handler declared with async def runs on  *)
(* the event loop and gives way to other requests at its await.  Each of   *)
(* the callers is idle or inside one such handler.                         *)

Callers == {1, 2}

(* seen and number are not fields of the program: seen is the highest      *)
(* version number of the file when the request arrived and number is the   *)
(* version number the request was answered with, kept so that a state      *)
(* tells two requests that overlapped from two that followed each other.   *)
Idle == [pc |-> "idle", actor |-> NoUser, id |-> NULL, target |-> NULL,
         content |-> "", seen |-> 0, number |-> 0]

(* State after the tables are created: no rows, an empty bucket.           *)

InitDb ==
    /\ files = <<>>
    /\ next_id = 1
    /\ versions = {}
    /\ shares = EmptyBag
    /\ s3 = <<>>
    /\ resp = Response("none", NULL, NULL, HTTP_200)
    /\ calls = [c \in Callers |-> Idle]

Init ==
    /\ InitDb
    /\ disk = <<>>

---------------------------------------------------------------------------
(* POST /folders/ *)

CreateFolder(actor, filename, parent_id) ==
    IF parent_id # NULL /\ ~ParentFolderFound(parent_id, actor)
    THEN /\ resp' = Response("create_folder", NULL, parent_id, HTTP_404)
         /\ UNCHANGED <<calls, files, next_id, versions, shares, s3, disk>>
    ELSE /\ next_id <= MaxFiles
         /\ files' = InsertFile(files, next_id,
                        FileRow(filename, NoPath, 0, actor, "folder", parent_id))
         /\ next_id' = next_id + 1
         /\ resp' = Response("create_folder", next_id, parent_id, HTTP_201)
         /\ UNCHANGED <<calls, versions, shares, s3, disk>>

---------------------------------------------------------------------------
(* POST /files/upload *)

UploadFile(actor, filename, content, file_type, parent_id, s3_ok, version_ok) ==
    IF parent_id # NULL /\ ~ParentFolderFound(parent_id, actor)
    THEN /\ resp' = Response("upload", NULL, parent_id, HTTP_404)
         /\ UNCHANGED <<calls, files, next_id, versions, shares, s3, disk>>
    ELSE IF ~is_valid_file_type(file_type)
    THEN /\ resp' = Response("upload", NULL, parent_id, HTTP_400)
         /\ UNCHANGED <<calls, files, next_id, versions, shares, s3, disk>>
    ELSE IF ~s3_ok
    THEN /\ resp' = Response("upload", NULL, parent_id, HTTP_500)
         /\ UNCHANGED <<calls, files, next_id, versions, shares, s3, disk>>
    ELSE LET s3_key == S3Key(actor, filename)
             db_file == FileRow(filename, s3_key, ContentSize(content), actor,
                                "file", parent_id)
         IN  /\ next_id <= MaxFiles
             /\ s3' = BlobPut(s3, s3_key, content)
             /\ files' = InsertFile(files, next_id, db_file)
             /\ next_id' = next_id + 1
             \* models.FileVersion(...) without is_current: the column default.
             \* When the insert of the version fails the handler logs and
             \* goes on with a session whose transaction has failed: the
             \* file row stays, the answer is 201 or 500.
             /\ versions' = IF version_ok
                            THEN versions \cup
                                   {FileVersionRow(next_id, 1, db_file.file_path,
                                                   db_file.file_size, FALSE)}
                            ELSE versions
             /\ \E status \in IF version_ok THEN {HTTP_201}
                                ELSE {HTTP_201, HTTP_500} :
                   resp' = Response("upload", next_id, parent_id, status)
             /\ UNCHANGED <<calls, shares, disk>>

---------------------------------------------------------------------------
(* PATCH /files/{item_id}/move *)

(* The loop of move_item: start at the target folder and follow parent_id; *)
(* "hit" when the walk meets the item being moved, "clear" when the query  *)
(* for the next parent returns no row.  A walk that comes back to a row    *)
(* it has already visited never leaves the loop ("diverge").               *)
RECURSIVE AncestorWalk(_, _, _)
AncestorWalk(current, item_id, seen) ==
    IF current \notin FileIds THEN "clear"
    ELSE IF current = item_id THEN "hit"
    ELSE IF current \in seen THEN "diverge"
    ELSE AncestorWalk(files[current].parent_id, item_id, seen \cup {current})

MoveCheckTargetOnly(target_parent_id, item_id) ==
    IF target_parent_id = item_id THEN "hit" ELSE "clear"

MoveCheckAboveTarget(target_parent_id, item_id) ==
    IF target_parent_id \notin FileIds THEN "clear"
    ELSE AncestorWalk(files[target_parent_id].parent_id, item_id, {})

MoveCheck(target_parent_id, item_id) ==
    AncestorWalk(target_parent_id, item_id, {})

move_item_files_reset(item_id, target_parent_id) ==
    [files EXCEPT ![item_id].parent_id = target_parent_id,
                  ![item_id].is_shared = FALSE]

(* item.parent_id = move_data.target_parent_id; db.commit() *)
move_item_files(item_id, target_parent_id) ==
    [files EXCEPT ![item_id].parent_id = target_parent_id]

MoveItem(actor, item_id, target_parent_id) ==
    IF item_id \notin FileIds
    THEN /\ resp' = Response("move", item_id, target_parent_id, HTTP_404)
         /\ UNCHANGED <<calls, files, next_id, versions, shares, s3, disk>>
    ELSE IF files[item_id].owner_id # actor
    THEN /\ resp' = Response("move", item_id, target_parent_id, HTTP_403)
         /\ UNCHANGED <<calls, files, next_id, versions, shares, s3, disk>>
    ELSE IF target_parent_id # NULL /\ ~ParentFolderFound(target_parent_id, actor)
    THEN /\ resp' = Response("move", item_id, target_parent_id, HTTP_404)
         /\ UNCHANGED <<calls, files, next_id, versions, shares, s3, disk>>
    ELSE IF target_parent_id # NULL /\ MoveCheck(target_parent_id, item_id) = "hit"
    THEN /\ resp' = Response("move", item_id, target_parent_id, HTTP_400)
         /\ UNCHANGED <<calls, files, next_id, versions, shares, s3, disk>>
    ELSE /\ target_parent_id # NULL => MoveCheck(target_parent_id, item_id) = "clear"
         /\ files' = move_item_files(item_id, target_parent_id)
         /\ resp' = Response("move", item_id, target_parent_id, HTTP_200)
         /\ UNCHANGED <<calls, next_id, versions, shares, s3, disk>>

---------------------------------------------------------------------------
(* Version chain: app/utils/versioning.py and the version handlers         *)

EDIT == "edit"

(* The non-owner check of create_file_version and restore_file_version: a  *)
(* FileShare row for (file_id, user) whose permission equals 'edit'.       *)
HasEditShare(file_id, user_id) ==
    \E r \in BagToSet(shares) :
        /\ r.file_id = file_id
        /\ r.shared_with_id = user_id
        /\ r.permission = EDIT

LatestVersionNumber(file_id) ==
    IF VersionsOf(file_id) = {} THEN 0
    ELSE Max({v.version_number : v \in VersionsOf(file_id)})

(* versioning.create_version: 1 when the file has no version, else the     *)
(* highest version_number plus one.                                        *)
StaleVersionNumber(file_id) ==
    LET seen == {calls[c].seen : c \in {d \in Callers : /\ calls[d].pc = "read"
                                                       /\ calls[d].id = file_id}}
    IN  IF seen = {}
        THEN IF VersionsOf(file_id) = {} THEN 1
             ELSE LatestVersionNumber(file_id) + 1
        ELSE 1 + CHOOSE n \in seen : \A m \in seen : n <= m

NewVersionNumber(file_id) ==
    IF VersionsOf(file_id) = {} THEN 1 ELSE LatestVersionNumber(file_id) + 1

ClearCurrent(rows, file_id) ==
    {IF v.file_id = file_id THEN [v EXCEPT !.is_current = FALSE] ELSE v :
        v \in rows}

(* versioning.create_version(db, file, user_id, comment): the rows and the *)
(* local files it leaves.  The snapshot written to the version path is the *)
(* content the file has on disk before the handler overwrites it.          *)
create_version_rows(file_id) ==
    LET n == NewVersionNumber(file_id)
        file_path == files[file_id].file_path
        version_path == VersionPath(file_path, n)
        content == disk[file_path]
    IN  ClearCurrent(versions, file_id) \cup
            {FileVersionRow(file_id, n, version_path, ContentSize(content), TRUE)}

create_version_disk(file_id) ==
    LET n == NewVersionNumber(file_id)
        file_path == files[file_id].file_path
    IN  BlobPut(disk, VersionPath(file_path, n), disk[file_path])

(* POST /files/{file_id}/versions *)
CreateFileVersion(actor, file_id, content) ==
    IF file_id \notin FileIds
    THEN /\ resp' = Response("create_version", file_id, NULL, HTTP_404)
         /\ UNCHANGED <<calls, files, next_id, versions, shares, s3, disk>>
    ELSE IF files[file_id].owner_id # actor /\ ~HasEditShare(file_id, actor)
    THEN /\ resp' = Response("create_version", file_id, NULL, HTTP_403)
         /\ UNCHANGED <<calls, files, next_id, versions, shares, s3, disk>>
    ELSE IF files[file_id].file_path = NoPath
    THEN \* os.path.exists(None) raises; the outer handler answers 500
         /\ resp' = Response("create_version", file_id, NULL, HTTP_500)
         /\ UNCHANGED <<calls, files, next_id, versions, shares, s3, disk>>
    ELSE IF files[file_id].file_path \notin DOMAIN disk
    THEN /\ resp' = Response("create_version", file_id, NULL, HTTP_404)
         /\ UNCHANGED <<calls, files, next_id, versions, shares, s3, disk>>
    ELSE /\ NewVersionNumber(file_id) <= MaxVersions
         /\ versions' = create_version_rows(file_id)
         /\ disk' = BlobPut(create_version_disk(file_id),
                            files[file_id].file_path, content)
         /\ files' = [files EXCEPT ![file_id].file_size = ContentSize(content)]
         /\ resp' = Response("create_version", file_id,
                             NewVersionNumber(file_id), HTTP_201)
         /\ UNCHANGED <<calls, next_id, shares, s3>>

VersionRow(file_id, version_number) ==
    CHOOSE v \in VersionsOf(file_id) : v.version_number = version_number

VersionExists(file_id, version_number) ==
    \E v \in VersionsOf(file_id) : v.version_number = version_number

(* restore_file_version, the database part: every version of the file is   *)
(* set not current, then the restored row itself is set current.           *)
RestoreRows(file_id, version_number) ==
    {IF v.file_id = file_id
        THEN [v EXCEPT !.is_current = (v.version_number = version_number)]
        ELSE v : v \in versions}

(* POST /files/{file_id}/versions/{version_number}/restore *)
RestoreFileVersion(actor, file_id, version_number) ==
    IF ~VersionExists(file_id, version_number)
    THEN /\ resp' = Response("restore", file_id, version_number, HTTP_404)
         /\ UNCHANGED <<calls, files, next_id, versions, shares, s3, disk>>
    ELSE IF file_id \notin FileIds
    THEN /\ resp' = Response("restore", file_id, version_number, HTTP_404)
         /\ UNCHANGED <<calls, files, next_id, versions, shares, s3, disk>>
    ELSE IF files[file_id].owner_id # actor /\ ~HasEditShare(file_id, actor)
    THEN /\ resp' = Response("restore", file_id, version_number, HTTP_403)
         /\ UNCHANGED <<calls, files, next_id, versions, shares, s3, disk>>
    ELSE LET file_path == files[file_id].file_path
             version == VersionRow(file_id, version_number)
         IN  IF \/ file_path \notin DOMAIN disk          \* backup copy fails
                \/ version.file_path = file_path         \* shutil.SameFileError
                \/ version.file_path \notin DOMAIN disk  \* version file missing
             THEN /\ resp' = Response("restore", file_id, version_number,
                                      HTTP_500)
                  /\ UNCHANGED <<calls, files, next_id, versions, shares, s3, disk>>
             ELSE /\ disk' = BlobPut(disk, file_path, disk[version.file_path])
                  /\ versions' = RestoreRows(file_id, version_number)
                  /\ resp' = Response("restore", file_id, version_number,
                                      HTTP_200)
                  /\ UNCHANGED <<calls, files, next_id, shares, s3>>

IsCurrentVersion(file_id, version_number) ==
    VersionRow(file_id, version_number).is_current

IsOldestVersion(file_id, version_number) ==
    \A v \in VersionsOf(file_id) : version_number <= v.version_number

(* The guard of delete_file_version and of versioning.delete_version: the  *)
(* version asked for carries the highest version_number of the file.       *)
IsLatestVersion(file_id, version_number) ==
    version_number = LatestVersionNumber(file_id)

(* versioning.delete_version: the row removed *)
DeleteVersionRows(file_id, version_number) ==
    {v \in versions :
        ~(v.file_id = file_id /\ v.version_number = version_number)}

(* DELETE /files/{file_id}/versions/{version_number} *)
DeleteFileVersion(actor, file_id, version_number) ==
    IF file_id \notin FileIds
    THEN /\ resp' = Response("delete_version", file_id, version_number,
                             HTTP_404)
         /\ UNCHANGED <<calls, files, next_id, versions, shares, s3, disk>>
    ELSE IF files[file_id].owner_id # actor
    THEN /\ resp' = Response("delete_version", file_id, version_number,
                             HTTP_403)
         /\ UNCHANGED <<calls, files, next_id, versions, shares, s3, disk>>
    ELSE IF ~VersionExists(file_id, version_number)
    THEN /\ resp' = Response("delete_version", file_id, version_number,
                             HTTP_404)
         /\ UNCHANGED <<calls, files, next_id, versions, shares, s3, disk>>
    ELSE IF IsLatestVersion(file_id, version_number)
    THEN /\ resp' = Response("delete_version", file_id, version_number,
                             HTTP_400)
         /\ UNCHANGED <<calls, files, next_id, versions, shares, s3, disk>>
    ELSE /\ disk' = BlobDelete(disk,
                        {VersionRow(file_id, version_number).file_path})
         /\ versions' = DeleteVersionRows(file_id, version_number)
         /\ resp' = Response("delete_version", file_id, version_number,
                             HTTP_200)
         /\ UNCHANGED <<calls, files, next_id, shares, s3>>

(* GET /files/{file_id}/versions: the version numbers, ascending *)
RECURSIVE SortedNumbers(_)
SortedNumbers(S) ==
    IF S = {} THEN <<>>
    ELSE LET m == CHOOSE x \in S : \A y \in S : x <= y
         IN  <<m>> \o SortedNumbers(S \ {m})

get_file_versions(file_id) ==
    SortedNumbers({v.version_number : v \in VersionsOf(file_id)})

---------------------------------------------------------------------------
(* DELETE /files/{file_id} *)

SharesKept(file_id) == shares

SharesWithoutFile(file_id) ==
    [r \in {x \in DOMAIN shares : x.file_id # file_id} |-> shares[r]]

FilesWithoutRowOnly(file_id) ==
    [i \in FileIds \ {file_id} |-> files[i]]

(* db.delete(file): the rows that remain.  The one-to-many side of the     *)
(* self-referential relationship of models.File has no delete cascade, so  *)
(* the unit of work sets parent_id to NULL on the rows that pointed to the *)
(* deleted one.                                                            *)
FilesWithout(file_id) ==
    [i \in FileIds \ {file_id} |->
        IF files[i].parent_id = file_id
        THEN [files[i] EXCEPT !.parent_id = NULL]
        ELSE files[i]]

(* The keys handed to s3_service.delete_file: the file's own and those of   *)
(* its versions.                                                           *)
DeleteKeys(file_id) ==
    {files[file_id].file_path} \cup {v.file_path : v \in VersionsOf(file_id)}

(* failed: the keys whose deletion the bucket refuses; the handler logs    *)
(* the error and goes on.                                                  *)
DeleteFile(actor, file_id, failed) ==
    IF file_id \notin FileIds
    THEN /\ resp' = Response("delete", file_id, NULL, HTTP_404)
         /\ UNCHANGED <<calls, files, next_id, versions, shares, s3, disk>>
    ELSE IF files[file_id].owner_id # actor
    THEN /\ resp' = Response("delete", file_id, NULL, HTTP_403)
         /\ UNCHANGED <<calls, files, next_id, versions, shares, s3, disk>>
    ELSE /\ s3' = BlobDelete(s3, DeleteKeys(file_id) \ failed)
         /\ versions' = versions \ VersionsOf(file_id)
         /\ shares' = SharesWithoutFile(file_id)
         /\ files' = FilesWithout(file_id)
         /\ resp' = Response("delete", file_id, NULL, HTTP_200)
         /\ UNCHANGED <<calls, next_id, disk>>

---------------------------------------------------------------------------
(* Sharing: POST /files/{file_id}/share and GET /files/shared-with-me      *)

ShareRows(file_id, shared_with_id) ==
    {r \in BagToSet(shares) :
        r.file_id = file_id /\ r.shared_with_id = shared_with_id}

BagAdd(bag, row) == bag (+) SetToBag({row})

BagRemoveOne(bag, row) == bag (-) SetToBag({row})

FileChildren(folder_id) ==
    {c \in FileIds : files[c].parent_id = folder_id /\ files[c].type = "file"}

RECURSIVE AddShareForEach(_, _, _, _)
AddShareForEach(bag, children, shared_with_id, permission) ==
    IF children = {} THEN bag
    ELSE LET c == CHOOSE x \in children : TRUE
         IN  AddShareForEach(BagAdd(bag, FileShareRow(c, shared_with_id, permission)),
                             children \ {c}, shared_with_id, permission)

(* recursively_share_folder: one new FileShare row for every child of the  *)
(* folder whose type is file, and is_shared set on that child; children of *)
(* type folder are skipped.                                                *)
recursively_share_folder_shares(bag, folder_id, shared_with_id, permission) ==
    AddShareForEach(bag, FileChildren(folder_id), shared_with_id, permission)

recursively_share_folder_files(folder_id) ==
    [i \in FileIds |->
        IF i \in FileChildren(folder_id)
        THEN [files[i] EXCEPT !.is_shared = TRUE]
        ELSE files[i]]

ShareFile(actor, file_id, shared_with_id, permission) ==
    IF file_id \notin FileIds
    THEN /\ resp' = Response("share", file_id, shared_with_id, HTTP_404)
         /\ UNCHANGED <<calls, files, next_id, versions, shares, s3, disk>>
    ELSE IF files[file_id].owner_id # actor
    THEN /\ resp' = Response("share", file_id, shared_with_id, HTTP_403)
         /\ UNCHANGED <<calls, files, next_id, versions, shares, s3, disk>>
    ELSE IF shared_with_id \notin Users
    THEN /\ resp' = Response("share", file_id, shared_with_id, HTTP_404)
         /\ UNCHANGED <<calls, files, next_id, versions, shares, s3, disk>>
    ELSE IF ShareRows(file_id, shared_with_id) # {}
    THEN \* existing_share = ....first(): one of the matching rows is updated
         /\ \E existing_share \in ShareRows(file_id, shared_with_id) :
               shares' = BagAdd(BagRemoveOne(shares, existing_share),
                                [existing_share EXCEPT !.permission = permission])
         /\ resp' = Response("share", file_id, shared_with_id, HTTP_200)
         /\ UNCHANGED <<calls, files, next_id, versions, s3, disk>>
    ELSE LET with_item == BagAdd(shares,
                              FileShareRow(file_id, shared_with_id, permission))
             is_folder == files[file_id].type = "folder"
         IN  /\ shares' = IF is_folder
                          THEN recursively_share_folder_shares(
                                   with_item, file_id, shared_with_id, permission)
                          ELSE with_item
             /\ BagCardinality(shares') <= MaxShares
             /\ files' = IF is_folder
                         THEN recursively_share_folder_files(file_id)
                         ELSE files
             /\ resp' = Response("share", file_id, shared_with_id, HTTP_200)
             /\ UNCHANGED <<calls, next_id, versions, s3, disk>>

(* files_shared_with_me: every FileShare row naming the user *)
files_shared_with_me(user_id) ==
    [r \in {x \in DOMAIN shares : x.shared_with_id = user_id} |-> shares[r]]

---------------------------------------------------------------------------
(* Read access: the check shared by get_file_content, download_file,       *)
(* get_file_versions and get_version_content.                              *)

(* The loop of is_file_accessible_by_shared_folder: from the file, follow  *)
(* parent_id; "yes" at the first parent row that has a FileShare row for   *)
(* the user, "no" when parent_id is null or names no row.  A chain that    *)
(* comes back to a row already visited never leaves the loop ("diverge").  *)
RECURSIVE SharedFolderWalk(_, _, _)
SharedFolderWalk(current, user_id, seen) ==
    LET parent_id == files[current].parent_id
    IN  IF parent_id = NULL \/ parent_id \notin FileIds THEN "no"
        ELSE IF ShareRows(parent_id, user_id) # {} THEN "yes"
        ELSE IF parent_id \in seen THEN "diverge"
        ELSE SharedFolderWalk(parent_id, user_id, seen \cup {parent_id})

ParentShareOnly(file_id, user_id) ==
    /\ files[file_id].parent_id \in FileIds
    /\ ShareRows(files[file_id].parent_id, user_id) # {}

is_file_accessible_by_shared_folder(file_id, user_id) ==
    SharedFolderWalk(file_id, user_id, {}) = "yes"

(* if file.owner_id != current_user.id: if not shared_file: if not         *)
(* is_file_accessible_by_shared_folder(...): 403                           *)
AccessDenied(file_id, user_id) ==
    /\ files[file_id].owner_id # user_id
    /\ ShareRows(file_id, user_id) = {}
    /\ ~is_file_accessible_by_shared_folder(file_id, user_id)

WalkEnds(file_id, user_id) ==
    \/ files[file_id].owner_id = user_id
    \/ ShareRows(file_id, user_id) # {}
    \/ SharedFolderWalk(file_id, user_id, {}) # "diverge"

ReadOnly == UNCHANGED <<calls, files, next_id, versions, shares, s3, disk>>

(* GET /files/{file_id}/content *)
GetFileContent(actor, file_id) ==
    /\ ReadOnly
    /\ IF file_id \notin FileIds
       THEN resp' = Response("content", file_id, actor, HTTP_404)
       ELSE /\ WalkEnds(file_id, actor)
            /\ IF AccessDenied(file_id, actor)
               THEN resp' = Response("content", file_id, actor, HTTP_403)
               ELSE IF files[file_id].type = "folder"
               THEN resp' = Response("content", file_id, actor, HTTP_400)
               ELSE IF files[file_id].file_path \notin DOMAIN s3
               THEN resp' = Response("content", file_id, actor, HTTP_404)
               ELSE resp' = Response("content", file_id, actor, HTTP_200)

(* GET /files/{file_id}/download *)
DownloadFile(actor, file_id) ==
    /\ ReadOnly
    /\ IF file_id \notin FileIds
       THEN resp' = Response("download", file_id, actor, HTTP_404)
       ELSE /\ WalkEnds(file_id, actor)
            /\ IF AccessDenied(file_id, actor)
               THEN resp' = Response("download", file_id, actor, HTTP_403)
               ELSE IF \/ files[file_id].file_path = NoPath
                       \/ files[file_id].file_path \notin DOMAIN s3
               THEN resp' = Response("download", file_id, actor, HTTP_500)
               ELSE resp' = Response("download", file_id, actor, HTTP_200)

(* GET /files/{file_id}/versions *)
GetFileVersions(actor, file_id) ==
    /\ ReadOnly
    /\ IF file_id \notin FileIds
       THEN resp' = Response("versions", file_id, actor, HTTP_404)
       ELSE /\ WalkEnds(file_id, actor)
            /\ IF AccessDenied(file_id, actor)
               THEN resp' = Response("versions", file_id, actor, HTTP_403)
               ELSE resp' = Response("versions", file_id, actor, HTTP_200)

(* GET /files/{file_id}/versions/{version_number}/content *)
GetVersionContent(actor, file_id, version_number) ==
    /\ ReadOnly
    /\ IF file_id \notin FileIds
       THEN resp' = Response("version_content", file_id, actor, HTTP_404)
       ELSE /\ WalkEnds(file_id, actor)
            /\ IF AccessDenied(file_id, actor)
               THEN resp' = Response("version_content", file_id, actor, HTTP_403)
               ELSE IF ~VersionExists(file_id, version_number)
               THEN resp' = Response("version_content", file_id, actor, HTTP_404)
               ELSE IF VersionRow(file_id, version_number).file_path
                          \notin DOMAIN disk
               THEN resp' = Response("version_content", file_id, actor, HTTP_404)
               ELSE resp' = Response("version_content", file_id, actor, HTTP_200)

---------------------------------------------------------------------------
(* The hierarchy requests, run one at a time *)

ItemIds == 1..MaxFiles
ParentIds == 0..MaxFiles

NextTree ==
    \/ \E actor \in Users, parent_id \in ParentIds :
          CreateFolder(actor, "a.txt", parent_id)
    \/ \E actor \in Users, parent_id \in ParentIds, file_type \in FileTypes,
          s3_ok \in BOOLEAN :
          UploadFile(actor, "a.txt", "hello", file_type, parent_id, s3_ok, TRUE)
    \/ \E actor \in Users, item_id \in ItemIds, target \in ParentIds :
          MoveItem(actor, item_id, target)

SpecTree == Init /\ [][NextTree]_vars

---------------------------------------------------------------------------
(* Ancestors of an item: the ids met by following parent_id at most        *)
(* MaxFiles + 1 times.                                                     *)

ParentOf(i) == IF i \in FileIds THEN files[i].parent_id ELSE NULL

RECURSIVE AncestorsUpTo(_, _)
AncestorsUpTo(i, n) ==
    IF n = 0 \/ ParentOf(i) = NULL THEN {}
    ELSE {ParentOf(i)} \cup AncestorsUpTo(ParentOf(i), n - 1)

Ancestors(i) == AncestorsUpTo(i, Cardinality(FileIds) + 1)

RECURSIVE ReachesRoot(_, _)
ReachesRoot(i, n) ==
    IF ParentOf(i) = NULL THEN TRUE
    ELSE IF n = 0 THEN FALSE
    ELSE ReachesRoot(ParentOf(i), n - 1)

(* C1: after any sequence of create_folder / upload / move_item calls run  *)
(* one at a time, the parent_id edges form a forest: from every Item the   *)
(* parent chain reaches null within as many steps as there are Items, and  *)
(* no Item is among its own ancestors.                                     *)
C1_Forest ==
    \A i \in FileIds :
        /\ ReachesRoot(i, Cardinality(FileIds))
        /\ i \notin Ancestors(i)

(* A successful move has put a folder holding a child under another folder *)
C1_Witness ==
    /\ resp.op = "move" /\ resp.status = HTTP_200 /\ resp.arg # NULL
    /\ \E c \in FileIds : files[c].parent_id = resp.id
    /\ files[resp.id].parent_id = resp.arg

---------------------------------------------------------------------------
(* The version requests, run one at a time.  create_file_version and       *)
(* restore_file_version work on the local file named by File.file_path, so *)
(* the local filesystem starts either empty or with a copy at every upload *)
(* path.                                                                   *)

MaxVerFiles == 1

LocalPaths == {S3Key(u, n) : u \in {1}, n \in Names}

InitLocal ==
    /\ InitDb
    /\ \E present \in {{}, LocalPaths} : disk = [p \in present |-> "hello"]

VersionNumbers == 1..MaxVersions

NextVersions ==
    \/ \E filename \in Names, s3_ok \in BOOLEAN :
          /\ next_id <= MaxVerFiles
          /\ UploadFile(1, filename, "hello", "text/plain", NULL, s3_ok, TRUE)
    \/ \E file_id \in 1..MaxVerFiles :
          CreateFileVersion(1, file_id, "hello")
    \/ \E file_id \in 1..MaxVerFiles, n \in VersionNumbers :
          RestoreFileVersion(1, file_id, n)
    \/ \E actor \in Users, file_id \in 1..MaxVerFiles, n \in VersionNumbers :
          DeleteFileVersion(actor, file_id, n)
    \/ \E file_id \in 1..MaxVerFiles :
          DeleteFile(1, file_id, {})

SpecVersions == InitLocal /\ [][NextVersions]_vars

---------------------------------------------------------------------------
(* The sharing requests, run one at a time: user 1 builds a tree; either   *)
(* user may ask to share an item of it, with another user or with an       *)
(* e-mail address that belongs to nobody.                                  *)

Grantees == (Users \ {1}) \cup {NoUser}

NextShare ==
    \/ \E parent_id \in ParentIds :
          CreateFolder(1, "a.txt", parent_id)
    \/ \E parent_id \in ParentIds, s3_ok \in BOOLEAN :
          UploadFile(1, "a.txt", "hello", "text/plain", parent_id, s3_ok, TRUE)
    \/ \E actor \in Users, file_id \in ItemIds, shared_with_id \in Grantees,
          permission \in Permissions :
          ShareFile(actor, file_id, shared_with_id, permission)

SpecShare == Init /\ [][NextShare]_vars

---------------------------------------------------------------------------
(* The read requests next to the requests that decide them: user 1 builds  *)
(* a tree and shares items of it with user 2; both users ask to read.      *)

NextAccess ==
    \/ \E parent_id \in ParentIds :
          CreateFolder(1, "a.txt", parent_id)
    \/ \E parent_id \in ParentIds :
          UploadFile(1, "a.txt", "hello", "text/plain", parent_id, TRUE, TRUE)
    \/ \E file_id \in ItemIds :
          ShareFile(1, file_id, 2, "read")
    \/ \E actor \in Users, file_id \in ItemIds :
          GetFileContent(actor, file_id)
    \/ \E actor \in Users, file_id \in ItemIds :
          DownloadFile(actor, file_id)
    \/ \E actor \in Users, file_id \in ItemIds :
          GetFileVersions(actor, file_id)
    \/ \E actor \in Users, file_id \in ItemIds :
          GetVersionContent(actor, file_id, 1)

SpecAccess == Init /\ [][NextAccess]_vars

(* Creating, moving and sharing: user 1 builds and rearranges a tree and   *)
(* shares items of it with user 2.                                         *)

NextMoveShare ==
    \/ \E parent_id \in ParentIds :
          CreateFolder(1, "a.txt", parent_id)
    \/ \E parent_id \in ParentIds :
          UploadFile(1, "a.txt", "hello", "text/plain", parent_id, TRUE, TRUE)
    \/ \E item_id \in ItemIds, target \in ParentIds :
          MoveItem(1, item_id, target)
    \/ \E file_id \in ItemIds :
          ShareFile(1, file_id, 2, "read")

SpecMoveShare == Init /\ [][NextMoveShare]_vars

---------------------------------------------------------------------------
(* Deleting a file that has versions and shares: user 1 uploads, adds      *)
(* versions and shares the file with user 2; either user asks to delete    *)
(* it, and the bucket may refuse any of the deletions.                     *)

KeysOf(file_id) == IF file_id \in FileIds THEN DeleteKeys(file_id) ELSE {}

NextDelete ==
    \/ \E filename \in Names :
          /\ next_id <= MaxVerFiles
          /\ UploadFile(1, filename, "hello", "text/plain", NULL, TRUE, TRUE)
    \/ \E file_id \in 1..MaxVerFiles :
          CreateFileVersion(1, file_id, "hello")
    \/ \E file_id \in 1..MaxVerFiles, permission \in Permissions :
          ShareFile(1, file_id, 2, permission)
    \/ \E actor \in Users, file_id \in 1..MaxVerFiles :
          \E failed \in SUBSET KeysOf(file_id) :
             DeleteFile(actor, file_id, failed)

SpecDelete == InitLocal /\ [][NextDelete]_vars

(* Two owners: both users create, move and delete items; a deleted folder  *)
(* may still have children.                                                *)

NextOwners ==
    \/ \E actor \in Users, parent_id \in ParentIds :
          CreateFolder(actor, "a.txt", parent_id)
    \/ \E actor \in Users, parent_id \in ParentIds :
          UploadFile(actor, "a.txt", "hello", "text/plain", parent_id, TRUE, TRUE)
    \/ \E actor \in Users, item_id \in ItemIds, target \in ParentIds :
          MoveItem(actor, item_id, target)
    \/ \E actor \in Users, file_id \in ItemIds :
          DeleteFile(actor, file_id, {})

SpecOwners == Init /\ [][NextOwners]_vars

---------------------------------------------------------------------------
(* The content of a file and of its versions: user 1 uploads 'hello' (a    *)
(* local copy may exist at the upload path), replaces the content by       *)
(* 'hello world', restores, deletes and reads versions.  The insert of     *)
(* the initial version may fail.                                           *)

NextContent ==
    \/ \E version_ok \in BOOLEAN :
          /\ next_id <= MaxVerFiles
          /\ UploadFile(1, "a.txt", "hello", "text/plain", NULL, TRUE, version_ok)
    \/ \E file_id \in 1..MaxVerFiles :
          CreateFileVersion(1, file_id, "hello world")
    \/ \E file_id \in 1..MaxVerFiles, n \in VersionNumbers :
          RestoreFileVersion(1, file_id, n)
    \/ \E file_id \in 1..MaxVerFiles, n \in VersionNumbers :
          DeleteFileVersion(1, file_id, n)
    \/ \E file_id \in 1..MaxVerFiles, n \in VersionNumbers :
          GetVersionContent(1, file_id, n)

SpecContent == InitLocal /\ [][NextContent]_vars

---------------------------------------------------------------------------
(* Properties of move_item *)

IsFolder(i) == i \in FileIds /\ files[i].type = "folder"

(* C2: a move of folder A onto itself, or onto a folder B that has A on    *)
(* its parent chain, requested by A's owner, is answered 400; whoever      *)
(* requests it, no row of the files table changes.                         *)
C2_MoveIntoDescendantRejected ==
    [][(/\ resp'.op = "move"
        /\ IsFolder(resp'.id) /\ IsFolder(resp'.arg)
        /\ (resp'.arg = resp'.id \/ resp'.id \in Ancestors(resp'.arg)))
       => /\ files' = files
          /\ \A actor \in Users :
                (/\ actor = files[resp'.id].owner_id
                 /\ MoveItem(actor, resp'.id, resp'.arg))
                => resp'.status = HTTP_400]_vars

(* A folder was asked to move under one of its proper descendants and the  *)
(* request was answered 400.                                               *)
C2_Witness ==
    /\ resp.op = "move" /\ resp.status = HTTP_400
    /\ resp.id # resp.arg
    /\ IsFolder(resp.id) /\ IsFolder(resp.arg)
    /\ resp.id \in Ancestors(resp.arg)

---------------------------------------------------------------------------
(* Properties of the version chain *)

VersionNumbersOf(file_id) == {v.version_number : v \in VersionsOf(file_id)}

CurrentNumbersOf(file_id) ==
    {v.version_number : v \in {w \in VersionsOf(file_id) : w.is_current}}

(* C3: in every state reached through upload, create_version,              *)
(* restore_version, delete_version and delete_item, a file that has at     *)
(* least one Version row has exactly one Version row with is_current.      *)
C3_ExactlyOneCurrent ==
    \A f \in FileIds :
        VersionsOf(f) # {} =>
            Cardinality({v \in VersionsOf(f) : v.is_current}) = 1

SuccessfulCreation(f) ==
    \/ resp'.op = "upload" /\ resp'.status = HTTP_201 /\ resp'.id = f
    \/ resp'.op = "create_version" /\ resp'.status = HTTP_201 /\ resp'.id = f
    \/ resp'.op = "restore" /\ resp'.status = HTTP_200 /\ resp'.id = f

(* C4: the N-th successful creation on a file (the upload, then            *)
(* create_version / restore_version, with no delete_version in between, so *)
(* that the numbers stored before it are exactly 1..N-1) leaves the        *)
(* numbers exactly 1..N and row N the only current one.                    *)
C4_NumbersOneToN ==
    [][\A f \in {resp'.id} :
          (/\ SuccessfulCreation(f)
           /\ VersionNumbersOf(f) = 1..Cardinality(VersionNumbersOf(f)))
          => LET N == Cardinality(VersionNumbersOf(f)) + 1
             IN  /\ VersionNumbersOf(f)' = 1..N
                 /\ CurrentNumbersOf(f)' = {N}]_vars

(* C5: a successful restore of version k on a file whose highest number is *)
(* N appends version N+1 as the current one, leaves row k not current and  *)
(* does not lower the highest number.                                      *)
C5_RestoreAppends ==
    [][\A f \in {resp'.id}, k \in {resp'.arg} :
          (resp'.op = "restore" /\ resp'.status = HTTP_200)
          => LET N == LatestVersionNumber(f)
             IN  /\ (N + 1) \in CurrentNumbersOf(f)'
                 /\ k \notin CurrentNumbersOf(f)'
                 /\ LatestVersionNumber(f)' >= N]_vars

DataUnchanged == UNCHANGED <<files, next_id, versions, shares, s3, disk>>

FirstVersionCreated(f) ==
    /\ resp.op = "create_version" /\ resp.status = HTTP_201
    /\ resp.id = f /\ resp.arg = 2
    /\ get_file_versions(f) = <<1, 2>>

---------------------------------------------------------------------------
(* Properties of sharing *)

ShareCount(file_id, shared_with_id) ==
    BagCardinality([r \in ShareRows(file_id, shared_with_id) |-> shares[r]])

(* C8: in every state reached through share calls there is at most one     *)
(* FileShare row per (file_id, shared_with_id) pair.                       *)
C8_OneSharePerPair ==
    \A f \in ItemIds, g \in Users : ShareCount(f, g) <= 1

SubfolderChildren(folder_id) ==
    {c \in FileIds : files[c].parent_id = folder_id /\ files[c].type = "folder"}

BelowSubfolder(folder_id) ==
    {x \in FileIds : \E sub \in SubfolderChildren(folder_id) : sub \in Ancestors(x)}

(* C9: a successful share of a folder leaves a FileShare row for the       *)
(* grantee on every direct child of type file, and adds no row for the     *)
(* grantee on a subfolder or on an item below a subfolder.                 *)
C9_ShareFolderDirectFiles ==
    [][\A d \in {resp'.id}, g \in {resp'.arg} :
          (/\ resp'.op = "share" /\ resp'.status = HTTP_200
           /\ IsFolder(d))
          => /\ \A c \in FileChildren(d) : ShareCount(c, g)' >= 1
             /\ \A x \in SubfolderChildren(d) \cup BelowSubfolder(d) :
                   ShareCount(x, g)' = ShareCount(x, g)]_vars

(* C10: after the owner shares a folder that holds exactly one item, a     *)
(* file, with a grantee who had no share, shared-with-me of the grantee is *)
(* exactly one row: the file, with the permission granted.                 *)
C10_SharedWithMeListsTheFile ==
    [][\A d \in {resp'.id}, g \in {resp'.arg} :
          (/\ resp'.op = "share" /\ resp'.status = HTTP_200
           /\ IsFolder(d)
           /\ Cardinality({c \in FileIds : files[c].parent_id = d}) = 1
           /\ Cardinality(FileChildren(d)) = 1
           /\ files_shared_with_me(g) = EmptyBag)
          => \E c \in FileChildren(d), p \in Permissions :
                /\ ShareFile(files[d].owner_id, d, g, p)
                /\ files_shared_with_me(g)' = SetToBag({FileShareRow(c, g, p)})]_vars

---------------------------------------------------------------------------
(* Properties of read access *)

HasAncestorShare(file_id, user_id) ==
    \E a \in Ancestors(file_id) : IsFolder(a) /\ ShareRows(a, user_id) # {}

(* C11: after a successful share of folder D with a grantee who is not the *)
(* owner and had no share, the grantee has no access to D itself and no    *)
(* access to a file below a subfolder of D.                                *)
C11_FolderShareNoInheritedAccess ==
    [][\A d \in {resp'.id}, g \in {resp'.arg} :
          (/\ resp'.op = "share" /\ resp'.status = HTTP_200
           /\ IsFolder(d)
           /\ g # files[d].owner_id
           /\ files_shared_with_me(g) = EmptyBag)
          => /\ AccessDenied(d, g)'
             /\ \A x \in BelowSubfolder(d) : AccessDenied(x, g)']_vars

ReadOps == {"content", "download", "versions", "version_content"}

(* C12: a read request of user u on file f (content, download, version     *)
(* history, version content) is answered 403 exactly when u does not own   *)
(* f, no FileShare row (f, u) exists and no folder on the parent chain of  *)
(* f has a FileShare row for u, all taken in the state of the request.     *)
C12_ReadAccess ==
    [][\A f \in {resp'.id}, u \in {resp'.arg} :
          (/\ resp'.op \in ReadOps
           /\ f \in FileIds
           /\ files[f].type = "file")
          => (resp'.status # HTTP_403
              <=> \/ files[f].owner_id = u
                  \/ ShareRows(f, u) # {}
                  \/ HasAncestorShare(f, u))]_vars

(* User 2 was given the content of a file it does not own and has no row   *)
(* for, through a share on a folder two levels up.                         *)
C12_Witness ==
    /\ resp.op = "content" /\ resp.status = HTTP_200
    /\ resp.id \in FileIds
    /\ files[resp.id].owner_id # resp.arg
    /\ ShareRows(resp.id, resp.arg) = {}
    /\ ~ParentShareOnly(resp.id, resp.arg)
    /\ HasAncestorShare(resp.id, resp.arg)

---------------------------------------------------------------------------
(* Properties of delete_file *)

(* C14: delete_file by the owner on a file is answered 200 and removes the *)
(* file row, every FileVersion row and every FileShare row of that file,   *)
(* whichever blob deletions fail.                                          *)
C14_DeleteCascade ==
    [][\A f \in {resp'.id} :
          (/\ resp'.op = "delete"
           /\ f \in FileIds
           /\ files[f].type = "file"
           /\ \E failed \in SUBSET DeleteKeys(f) :
                 DeleteFile(files[f].owner_id, f, failed))
          => /\ resp'.status = HTTP_200
             /\ f \notin FileIds'
             /\ \A v \in versions' : v.file_id # f
             /\ \A r \in BagToSet(shares') : r.file_id # f]_vars

(* A file that had a second version was deleted while the bucket refused   *)
(* to delete its blob: no file, version or share row is left.              *)
C14_Witness ==
    /\ resp.op = "delete" /\ resp.status = HTTP_200
    /\ resp.id \notin FileIds
    /\ s3 # <<>>
    /\ \E p \in DOMAIN disk : p.v = 2
    /\ versions = {} /\ shares = EmptyBag

(* C15: every item with a non-null parent_id points to an existing row of  *)
(* type folder that has the same owner.                                    *)
C15_ParentIsOwnFolder ==
    \A i \in FileIds :
        files[i].parent_id # NULL =>
            /\ files[i].parent_id \in FileIds
            /\ files[files[i].parent_id].type = "folder"
            /\ files[files[i].parent_id].owner_id = files[i].owner_id

(* An item was deleted; of the items created after it, one is a root item *)
(* and another one still has its parent.                                   *)
C15_Witness ==
    /\ resp.op = "delete" /\ resp.status = HTTP_200
    /\ resp.id \notin FileIds
    /\ \E c \in FileIds : c > resp.id /\ files[c].parent_id = NULL
    /\ \E d \in FileIds : d > resp.id /\ files[d].parent_id \in FileIds

---------------------------------------------------------------------------
(* Properties of the content of versions *)

CurrentVersionsOf(file_id) == {v \in VersionsOf(file_id) : v.is_current}

(* C16: after a successful create_file_version or restore_file_version on  *)
(* a file that has its initial version, the file has one current version,  *)
(* the file row carries the file_size and file_path of that version, and   *)
(* the content stored for that version is the content the file now has.    *)
C16_FileMirrorsCurrentVersion ==
    [][\A f \in {resp'.id} :
          (/\ VersionsOf(f) # {}
           /\ \/ resp'.op = "create_version" /\ resp'.status = HTTP_201
              \/ resp'.op = "restore" /\ resp'.status = HTTP_200)
          => /\ Cardinality(CurrentVersionsOf(f)') = 1
             /\ \A cur \in CurrentVersionsOf(f)' :
                   /\ files'[f].file_size = cur.file_size
                   /\ files'[f].file_path = cur.file_path
                   /\ cur.file_path \in DOMAIN disk'
                   /\ disk'[cur.file_path] = disk'[files'[f].file_path]]_vars

(* C17: a successful create_file_version or restore_file_version on a file *)
(* leaves the content stored for each of its earlier versions as it was.   *)
C17_VersionContentImmutable ==
    [][\A f \in {resp'.id} :
          (/\ f \in FileIds
           /\ \/ resp'.op = "create_version" /\ resp'.status = HTTP_201
              \/ resp'.op = "restore" /\ resp'.status = HTTP_200)
          => \A v \in VersionsOf(f) :
                v.file_path \in DOMAIN disk
                => /\ v.file_path \in DOMAIN disk'
                   /\ disk'[v.file_path] = disk[v.file_path]]_vars

(* C18: every item of type file has at least one FileVersion row.          *)
C18_FileHasVersion ==
    \A f \in FileIds :
        files[f].type = "file" => VersionsOf(f) # {}

---------------------------------------------------------------------------
(* move_item requests that overlap.  move_item is declared with def: each  *)
(* request runs in its own worker thread with its own session, and between *)
(* its queries and its commit nothing holds the rows it has read.          *)

(* The queries of move_item: the item, its owner, the target folder and    *)
(* the walk up from the target.  The answer is the status the request      *)
(* would end with, HTTP_200 when every check passes.                       *)
move_item_check(actor, item_id, target_parent_id) ==
    IF item_id \notin FileIds THEN HTTP_404
    ELSE IF files[item_id].owner_id # actor THEN HTTP_403
    ELSE IF target_parent_id # NULL /\ ~ParentFolderFound(target_parent_id, actor)
    THEN HTTP_404
    ELSE IF target_parent_id # NULL /\ MoveCheck(target_parent_id, item_id) = "hit"
    THEN HTTP_400
    ELSE HTTP_200

(* First part of a request: the checks, on the rows committed so far.      *)
MoveItemCheck(c, actor, item_id, target_parent_id) ==
    /\ calls[c].pc = "idle"
    /\ target_parent_id # NULL => MoveCheck(target_parent_id, item_id) # "diverge"
    /\ IF move_item_check(actor, item_id, target_parent_id) # HTTP_200
       THEN /\ resp' = Response("move", item_id, target_parent_id,
                                move_item_check(actor, item_id, target_parent_id))
            /\ UNCHANGED <<calls, files, next_id, versions, shares, s3, disk>>
       ELSE /\ calls' = [calls EXCEPT ![c] =
                            [Idle EXCEPT !.pc = "checked", !.actor = actor,
                                         !.id = item_id,
                                         !.target = target_parent_id]]
            /\ UNCHANGED <<files, next_id, versions, shares, s3, disk, resp>>

(* Second part: the assignment of parent_id and the commit.                *)
MoveItemCommit(c) ==
    /\ calls[c].pc = "checked"
    /\ calls[c].id \in FileIds
    /\ files' = move_item_files(calls[c].id, calls[c].target)
    /\ resp' = Response("move", calls[c].id, calls[c].target, HTTP_200)
    /\ calls' = [calls EXCEPT ![c] = Idle]
    /\ UNCHANGED <<next_id, versions, shares, s3, disk>>

NextMoveRace ==
    \/ \E parent_id \in ParentIds :
          CreateFolder(1, "a.txt", parent_id)
    \/ \E c \in Callers, item_id \in ItemIds, target \in ParentIds :
          MoveItemCheck(c, 1, item_id, target)
    \/ \E c \in Callers :
          MoveItemCommit(c)

SpecMoveRace == Init /\ [][NextMoveRace]_vars

(* C19: with move_item requests that overlap, no item is its own ancestor. *)
C19_ConcurrentMovesKeepForest ==
    \A i \in FileIds : files[i].parent_id = NULL \/ i \notin Ancestors(i)

---------------------------------------------------------------------------
(* create_file_version requests that overlap.  The handler is declared     *)
(* with async def and run.py starts one server process: the handler runs   *)
(* on the event loop of that process and another request can run only      *)
(* while it waits at `await file.read()`.  The lookup of the file and the  *)
(* permission check come before that await; everything else comes after.   *)

SeenVersionNumber(file_id) ==
    IF VersionsOf(file_id) = {} THEN 0 ELSE LatestVersionNumber(file_id)

(* Up to `await file.read()`.                                              *)
CreateFileVersionRead(c, actor, file_id, content) ==
    /\ calls[c].pc \in {"idle", "done"}
    /\ IF file_id \notin FileIds
       THEN /\ resp' = Response("create_version", file_id, NULL, HTTP_404)
            /\ UNCHANGED <<calls, files, next_id, versions, shares, s3, disk>>
       ELSE IF files[file_id].owner_id # actor /\ ~HasEditShare(file_id, actor)
       THEN /\ resp' = Response("create_version", file_id, NULL, HTTP_403)
            /\ UNCHANGED <<calls, files, next_id, versions, shares, s3, disk>>
       ELSE /\ calls' = [calls EXCEPT ![c] =
                            [Idle EXCEPT !.pc = "read", !.actor = actor,
                                         !.id = file_id, !.content = content,
                                         !.seen = SeenVersionNumber(file_id)]]
            /\ UNCHANGED <<files, next_id, versions, shares, s3, disk, resp>>

(* From the return of `await file.read()` to the response, with no await   *)
(* in between: the test of the file path, versioning.create_version, the   *)
(* write of the new content and the commit of file_size.                   *)
CreateFileVersionWrite(c) ==
    LET file_id == calls[c].id
        content == calls[c].content
    IN  /\ calls[c].pc = "read"
        /\ file_id \in FileIds
        /\ IF files[file_id].file_path = NoPath
           THEN /\ resp' = Response("create_version", file_id, NULL, HTTP_500)
                /\ calls' = [calls EXCEPT ![c] = Idle]
                /\ UNCHANGED <<files, next_id, versions, shares, s3, disk>>
           ELSE IF files[file_id].file_path \notin DOMAIN disk
           THEN /\ resp' = Response("create_version", file_id, NULL, HTTP_404)
                /\ calls' = [calls EXCEPT ![c] = Idle]
                /\ UNCHANGED <<files, next_id, versions, shares, s3, disk>>
           ELSE /\ NewVersionNumber(file_id) <= MaxVersions
                /\ versions' = create_version_rows(file_id)
                /\ disk' = BlobPut(create_version_disk(file_id),
                                   files[file_id].file_path, content)
                /\ files' = [files EXCEPT
                                ![file_id].file_size = ContentSize(content)]
                /\ resp' = Response("create_version", file_id,
                                    NewVersionNumber(file_id), HTTP_201)
                /\ calls' = [calls EXCEPT ![c] =
                                [@ EXCEPT !.pc = "done",
                                          !.number = NewVersionNumber(file_id)]]
                /\ UNCHANGED <<next_id, shares, s3>>

NextVersionRace ==
    \/ /\ next_id <= MaxVerFiles
       /\ UploadFile(1, "a.txt", "hello", "text/plain", NULL, TRUE, TRUE)
    \/ \E c \in Callers, actor \in Users, file_id \in 1..MaxVerFiles,
          content \in {"hello", "hello world"} :
          CreateFileVersionRead(c, actor, file_id, content)
    \/ \E c \in Callers :
          CreateFileVersionWrite(c)

SpecVersionRace == InitLocal /\ [][NextVersionRace]_vars

(* Two answered requests on one file overlapped: each arrived before the   *)
(* other was answered.                                                     *)
Overlapped(a, b) ==
    /\ a.pc = "done" /\ b.pc = "done"
    /\ a.id = b.id
    /\ a.seen < b.number /\ b.seen < a.number

(* C20: a create_file_version request that is answered with 201 adds one   *)
(* FileVersion row to the file, whose number is one more than the highest  *)
(* number the file had and is carried by no other row of the file, and     *)
(* leaves exactly one row of the file with is_current set; two requests    *)
(* on the same file that overlapped were answered with two numbers of      *)
(* which one is the other plus one.                                        *)
C20_ConcurrentCreateVersion ==
    [][\A f \in {resp'.id}, n \in {resp'.arg} :
          (/\ resp'.op = "create_version" /\ resp'.status = HTTP_201
           /\ \E c \in Callers : calls[c].pc = "read" /\ calls'[c].pc = "done")
          => /\ VersionsOf(f) # {} => n = LatestVersionNumber(f) + 1
             /\ \A v \in VersionsOf(f) : v.version_number # n
             /\ Cardinality(VersionsOf(f)') = Cardinality(VersionsOf(f)) + 1
             /\ \A v, w \in VersionsOf(f)' :
                   v.version_number = w.version_number => v = w
             /\ Cardinality(CurrentVersionsOf(f)') = 1
             /\ \A c, d \in Callers :
                   (c # d /\ Overlapped(calls'[c], calls'[d]))
                   => \/ calls'[c].number = calls'[d].number + 1
                      \/ calls'[d].number = calls'[c].number + 1]_vars

(* Both callers were answered on the same file after they overlapped.      *)
C20_Witness ==
    /\ resp.op = "create_version" /\ resp.status = HTTP_201
    /\ Overlapped(calls[1], calls[2])
    /\ calls[1].id = resp.id
    /\ Cardinality(CurrentVersionsOf(resp.id)) = 1

---------------------------------------------------------------------------
(* Who may add a version.  share_file stores the permission string of the  *)
(* request as it comes; the members of models.PermissionType are read,     *)
(* write and admin, and the share schemas also name edit.                  *)

PermissionType == {"read", "write", "admin"}

SharePermissions == PermissionType \cup Permissions

NextGrant ==
    \/ \E filename \in Names :
          /\ next_id <= MaxVerFiles
          /\ UploadFile(1, filename, "hello", "text/plain", NULL, TRUE, TRUE)
    \/ \E file_id \in 1..MaxVerFiles, permission \in SharePermissions :
          ShareFile(1, file_id, 2, permission)
    \/ \E actor \in Users, file_id \in 1..MaxVerFiles,
          content \in {"hello", "hello world"} :
          CreateFileVersion(actor, file_id, content)

SpecGrant == InitLocal /\ [][NextGrant]_vars

(* The permissions that stand for write access.                            *)
WritePermissions == {"write", "edit"}

HasWriteShare(file_id, user_id) ==
    \E r \in ShareRows(file_id, user_id) : r.permission \in WritePermissions

(* C21: a create_file_version request by u on a file is answered 201     *)
(* (the file's content being in place) when u is the owner or holds a      *)
(* share with write permission on the file; for any other u it is answered *)
(* 403 and the FileVersion rows stay as they were.                         *)
C21_CreateVersionPermission ==
    [][\A u \in Users, f \in 1..MaxVerFiles :
          (/\ f \in FileIds
           /\ files[f].file_path \in DOMAIN disk
           /\ \E content \in {"hello", "hello world"} :
                 CreateFileVersion(u, f, content))
          => IF files[f].owner_id = u \/ HasWriteShare(f, u)
             THEN resp'.status = HTTP_201
             ELSE resp'.status = HTTP_403 /\ versions' = versions]_vars

---------------------------------------------------------------------------
(* The answers of move_item *)

(* The target of a move cannot be used by the actor: it is missing, is not *)
(* the actor's or is not a folder.                                         *)
BadTarget(actor, target) ==
    /\ target # NULL
    /\ \/ target \notin FileIds
       \/ files[target].owner_id # actor
       \/ files[target].type # "folder"

(* C22: move_item is answered 404 when the item is missing, else 403 when  *)
(* the actor is not its owner, else 404 when the target is missing, not    *)
(* the actor's or not a folder; a request that is not answered 200 leaves  *)
(* every row of the files table as it was; after a request answered 200    *)
(* the item's parent_id is the requested target.                           *)
C22_MoveItemAnswers ==
    [][\A actor \in Users, i \in {resp'.id}, t \in {resp'.arg} :
          (resp'.op = "move" /\ MoveItem(actor, i, t))
          => /\ i \notin FileIds => resp'.status = HTTP_404
             /\ (i \in FileIds /\ files[i].owner_id # actor)
                => resp'.status = HTTP_403
             /\ (i \in FileIds /\ files[i].owner_id = actor
                 /\ BadTarget(actor, t))
                => resp'.status = HTTP_404
             /\ resp'.status # HTTP_200 => files' = files
             /\ resp'.status = HTTP_200
                => /\ i \in FileIds
                   /\ files'[i].parent_id = t]_vars

(* A move of an existing item by a user who does not own it, towards a     *)
(* target that does not exist, was answered 403.                           *)
C22_Witness ==
    /\ resp.op = "move" /\ resp.status = HTTP_403
    /\ resp.id \in FileIds
    /\ resp.arg # NULL /\ resp.arg \notin FileIds

---------------------------------------------------------------------------
(* create_file_version when the write of the new content fails.            *)
(* versioning.create_version has committed the new row by then; the        *)
(* handler's except branch looks for a '.backup' copy that nothing ever    *)
(* makes, re-raises, and the outer handler answers 500.  open(path, 'wb')  *)
(* may have truncated the file before the failure.                         *)

Truncated == ""

CreateFileVersionFailedWrite(actor, file_id) ==
    IF file_id \notin FileIds
    THEN /\ resp' = Response("create_version", file_id, NULL, HTTP_404)
         /\ UNCHANGED <<calls, files, next_id, versions, shares, s3, disk>>
    ELSE IF files[file_id].owner_id # actor /\ ~HasEditShare(file_id, actor)
    THEN /\ resp' = Response("create_version", file_id, NULL, HTTP_403)
         /\ UNCHANGED <<calls, files, next_id, versions, shares, s3, disk>>
    ELSE IF files[file_id].file_path = NoPath
    THEN /\ resp' = Response("create_version", file_id, NULL, HTTP_500)
         /\ UNCHANGED <<calls, files, next_id, versions, shares, s3, disk>>
    ELSE IF files[file_id].file_path \notin DOMAIN disk
    THEN /\ resp' = Response("create_version", file_id, NULL, HTTP_404)
         /\ UNCHANGED <<calls, files, next_id, versions, shares, s3, disk>>
    ELSE /\ NewVersionNumber(file_id) <= MaxVersions
         /\ versions' = create_version_rows(file_id)
         /\ \E left \in {disk[files[file_id].file_path], Truncated} :
               disk' = BlobPut(create_version_disk(file_id),
                               files[file_id].file_path, left)
         /\ resp' = Response("create_version", file_id, NULL, HTTP_500)
         /\ UNCHANGED <<calls, files, next_id, shares, s3>>

NextWriteFail ==
    \/ \E filename \in Names :
          /\ next_id <= MaxVerFiles
          /\ UploadFile(1, filename, "hello", "text/plain", NULL, TRUE, TRUE)
    \/ \E file_id \in 1..MaxVerFiles, content \in {"hello", "hello world"} :
          CreateFileVersion(1, file_id, content)
    \/ \E file_id \in 1..MaxVerFiles :
          CreateFileVersionFailedWrite(1, file_id)
    \/ \E file_id \in 1..MaxVerFiles, n \in VersionNumbers :
          RestoreFileVersion(1, file_id, n)
    \/ \E file_id \in 1..MaxVerFiles, n \in VersionNumbers :
          DeleteFileVersion(1, file_id, n)

SpecWriteFail == InitLocal /\ [][NextWriteFail]_vars

(* C23: a create_file_version request in which the write of the new        *)
(* content fails leaves the FileVersion rows of the file as they were (no  *)
(* new row, the same current row) and leaves file_size and file_path of    *)
(* the file row as they were.                                              *)
C23_FailedWriteRecordsNothing ==
    [][\A f \in {resp'.id} :
          (/\ resp'.op = "create_version" /\ resp'.status = HTTP_500
           /\ CreateFileVersionFailedWrite(1, f))
          => /\ VersionsOf(f)' = VersionsOf(f)
             /\ files'[f].file_size = files[f].file_size
             /\ files'[f].file_path = files[f].file_path]_vars

---------------------------------------------------------------------------
(* delete_file when db.commit() fails.  The blob deletions of the file and *)
(* of its versions have been issued by then, each in its own try/except;   *)
(* the rows marked for deletion are kept and the answer is 500.            *)

DeleteFileFailedCommit(actor, file_id, failed) ==
    IF file_id \notin FileIds
    THEN /\ resp' = Response("delete", file_id, NULL, HTTP_404)
         /\ UNCHANGED <<calls, files, next_id, versions, shares, s3, disk>>
    ELSE IF files[file_id].owner_id # actor
    THEN /\ resp' = Response("delete", file_id, NULL, HTTP_403)
         /\ UNCHANGED <<calls, files, next_id, versions, shares, s3, disk>>
    ELSE /\ s3' = BlobDelete(s3, DeleteKeys(file_id) \ failed)
         /\ resp' = Response("delete", file_id, NULL, HTTP_500)
         /\ UNCHANGED <<calls, files, next_id, versions, shares, disk>>

NextDeleteFail ==
    \/ \E filename \in Names, content \in {"hello", "hello world"} :
          UploadFile(1, filename, content, "text/plain", NULL, TRUE, TRUE)
    \/ \E actor \in Users, file_id \in ItemIds :
          \E failed \in SUBSET KeysOf(file_id) :
             DeleteFile(actor, file_id, failed)
    \/ \E actor \in Users, file_id \in ItemIds :
          \E failed \in SUBSET KeysOf(file_id) :
             DeleteFileFailedCommit(actor, file_id, failed)

SpecDeleteFail == Init /\ [][NextDeleteFail]_vars

(* C24: a delete_file request whose commit fails has removed no blob: the  *)
(* bucket is as it was, so every row that survives still has its blob.     *)
C24_NoBlobDeleteBeforeCommit ==
    [][\A f \in {resp'.id} :
          (/\ resp'.op = "delete" /\ resp'.status = HTTP_500
           /\ f \in FileIds')
          => /\ s3' = s3
             /\ files[f].file_path \in DOMAIN s3
                => files'[f].file_path \in DOMAIN s3']_vars

---------------------------------------------------------------------------
(* Sharing a folder again *)

(* C25: when a folder that already has a share for the grantee is shared   *)
(* with that grantee again, with permission p, every direct child of type  *)
(* file has a FileShare row for the grantee afterwards and each such row   *)
(* carries p.                                                              *)
C25_ReshareFolderUpsertsChildren ==
    [][\A d \in {resp'.id}, g \in {resp'.arg}, p \in Permissions :
          (/\ resp'.op = "share" /\ resp'.status = HTTP_200
           /\ IsFolder(d)
           /\ ShareRows(d, g) # {}
           /\ ShareFile(files[d].owner_id, d, g, p))
          => \A c \in FileChildren(d) :
                /\ ShareRows(c, g)' # {}
                /\ \A r \in ShareRows(c, g)' : r.permission = p]_vars

---------------------------------------------------------------------------
(* Write requests of a user whose grant is on a folder above the file:     *)
(* user 1 builds a tree and shares items with user 2 for editing, user 2   *)
(* asks for new versions and for restores.                                 *)

NextInherit ==
    \/ \E parent_id \in ParentIds :
          CreateFolder(1, "a.txt", parent_id)
    \/ \E parent_id \in ParentIds :
          UploadFile(1, "a.txt", "hello", "text/plain", parent_id, TRUE, TRUE)
    \/ \E file_id \in ItemIds :
          ShareFile(1, file_id, 2, EDIT)
    \/ \E file_id \in ItemIds :
          CreateFileVersion(2, file_id, "hello")
    \/ \E file_id \in ItemIds, n \in VersionNumbers :
          RestoreFileVersion(2, file_id, n)

SpecInherit == InitLocal /\ [][NextInherit]_vars

(* The only grant of the user on the file is a share with write permission *)
(* on a folder above it.                                                   *)
OnlyInheritedWrite(file_id, user_id) ==
    /\ file_id \in FileIds
    /\ files[file_id].type = "file"
    /\ files[file_id].owner_id # user_id
    /\ ShareRows(file_id, user_id) = {}
    /\ \E a \in Ancestors(file_id) : IsFolder(a) /\ HasWriteShare(a, user_id)

(* C26: a create_file_version or restore_file_version request by a user    *)
(* whose only grant on the file is a write share on an ancestor folder is  *)
(* not answered 403, as the read check does not deny that user.            *)
C26_InheritedWriteAllowed ==
    [][\A f \in {resp'.id}, n \in {resp'.arg} :
          (/\ OnlyInheritedWrite(f, 2)
           /\ ~AccessDenied(f, 2)
           /\ \/ resp'.op = "create_version" /\ CreateFileVersion(2, f, "hello")
              \/ resp'.op = "restore" /\ RestoreFileVersion(2, f, n))
          => resp'.status # HTTP_403]_vars

---------------------------------------------------------------------------
(* The keys of the versions *)

(* No two FileVersion rows of the file have the same file_path and no row  *)
(* that is not current has the file_path of the file row.                  *)
OwnKeys(file_id) ==
    /\ \A v, w \in VersionsOf(file_id) : v.file_path = w.file_path => v = w
    /\ \A v \in VersionsOf(file_id) :
          ~v.is_current => v.file_path # files[file_id].file_path

(* C27: when delete_file_version is answered 200, the versions of the file *)
(* had keys of their own, and the content under the file row's path and    *)
(* under the path of every remaining version is still there.               *)
C27_DeleteVersionKeepsOtherContent ==
    [][\A f \in {resp'.id} :
          (resp'.op = "delete_version" /\ resp'.status = HTTP_200)
          => /\ OwnKeys(f)
             /\ files[f].file_path \in DOMAIN disk
                => files'[f].file_path \in DOMAIN disk'
             /\ \A v \in VersionsOf(f)' :
                   v.file_path \in DOMAIN disk => v.file_path \in DOMAIN disk']_vars

---------------------------------------------------------------------------
(* Termination of the walks up the parent chain *)

(* C28: in every state reached by move_item requests that may overlap, the *)
(* walk of move_item from any target for any item comes to an end, and so  *)
(* does the walk of the read check for any item and any user.              *)
C28_WalksTerminate ==
    /\ \A i \in FileIds, t \in FileIds : MoveCheck(t, i) # "diverge"
    /\ \A f \in FileIds, u \in Users : WalkEnds(f, u)

---------------------------------------------------------------------------
(* The blobs of the files: user 1 uploads files at the root and deletes    *)
(* them; every upload and every deletion succeeds.                         *)

NextBlobs ==
    \/ \E filename \in Names, content \in {"hello", "hello world"} :
          UploadFile(1, filename, content, "text/plain", NULL, TRUE, TRUE)
    \/ \E file_id \in ItemIds :
          DeleteFile(1, file_id, {})

SpecBlobs == Init /\ [][NextBlobs]_vars

(* C29: the file_path of every file row names a blob of the bucket, and    *)
(* that blob has the size recorded for the file when it was uploaded.      *)
C29_FileBlobKept ==
    \A f \in FileIds :
        files[f].type = "file"
        => /\ files[f].file_path \in DOMAIN s3
           /\ ContentSize(s3[files[f].file_path]) = files[f].file_size

---------------------------------------------------------------------------
(* GET /files/{file_id}: the metadata of an item.  The test for a caller   *)
(* who is not the owner is the is_shared flag of the row.                  *)

GetFile(actor, file_id) ==
    /\ ReadOnly
    /\ resp' = Response("get", file_id, actor,
                  IF file_id \notin FileIds THEN HTTP_404
                  ELSE IF files[file_id].owner_id # actor
                          /\ ~files[file_id].is_shared THEN HTTP_403
                  ELSE IF files[file_id].type = "folder" THEN HTTP_200
                  ELSE IF \/ files[file_id].file_path = NoPath
                          \/ files[file_id].file_path \notin DOMAIN disk
                       THEN HTTP_404
                  ELSE HTTP_200)

(* A third user, who owns nothing and is granted nothing.                  *)
Outsider == 3

NextGet ==
    \/ \E parent_id \in ParentIds :
          CreateFolder(1, "a.txt", parent_id)
    \/ \E parent_id \in ParentIds :
          UploadFile(1, "a.txt", "hello", "text/plain", parent_id, TRUE, TRUE)
    \/ \E file_id \in ItemIds :
          ShareFile(1, file_id, 2, "read")
    \/ \E actor \in Users \cup {Outsider}, file_id \in ItemIds :
          GetFile(actor, file_id)

SpecGet == InitLocal /\ [][NextGet]_vars

(* C30: get_file on item i by user u is answered 200 only if u owns i, or  *)
(* a FileShare row (i, u) exists, or a folder above i has a FileShare row  *)
(* for u.                                                                  *)
C30_GetFileOnlyForGrantee ==
    [][\A i \in {resp'.id}, u \in {resp'.arg} :
          (resp'.op = "get" /\ resp'.status = HTTP_200)
          => \/ files[i].owner_id = u
             \/ ShareRows(i, u) # {}
             \/ HasAncestorShare(i, u)]_vars

====
